---- MODULE Spec2Model ----
(***************************************************************************)
(* The VIYAN admin backend (src/main.py, src/backend/schemas.py) as a      *)
(* state machine: the document store (the adminsettings and product        *)
(* collections), the in-memory token registry TOKENS, and one action per   *)
(* HTTP route.  Each handler is an `async def` with no suspension point,   *)
(* so a handler runs to completion before the next one starts: one action  *)
(* is one whole request.                                                   *)
(*                                                                         *)
(* Values.  Python's None is the empty sequence and a present optional     *)
(* value v is <<v>>.  A document is a function from the field names it     *)
(* holds to their values.  Strings are TLA+ strings; sha256 is modelled as *)
(* an injective tagging of its argument, never equal to a plaintext.       *)
(***************************************************************************)
EXTENDS Integers, Sequences, FiniteSets, TLC

VARIABLES
    dbReady,    \* database.db is not None (fixed for the process lifetime)
    started,    \* the startup event has run
    settings,   \* collection "adminsettings": sequence of documents
    products,   \* collection "product": sequence of documents, insertion order
    nextOid,    \* next ObjectId the store will assign
    TOKENS,     \* main.py TOKENS: the set of issued tokens
    issued,     \* history: every token a login has returned
    resp        \* the last request and its response

vars == <<dbReady, started, settings, products, nextOid, TOKENS, issued, resp>>

-----------------------------------------------------------------------------
(* Bounds *)

\* ObjectIds the store may assign during one run
MaxOid == 2
\* distinct clock readings str(datetime.utcnow()) a login may observe
MaxTime == 1
\* logins are explored while the registry holds fewer tokens than this
MaxTokens == 2

-----------------------------------------------------------------------------
(* Values *)

None == <<>>
Some(v) == <<v>>

DEFAULT_USERNAME == "viyan fashion world"
DEFAULT_PASSWORD == "viyan@2023"
DEFAULT_UPI == "viyan@upi"
DEFAULT_SIZES == <<"XS", "S", "M", "L", "XL">>

\* usernames a request may carry: the default, a padded mixed-case spelling
\* of it, and another name (which is also one of the passwords)
Usernames == {DEFAULT_USERNAME, " Viyan Fashion World ", "secret"}
Passwords == {DEFAULT_PASSWORD, "secret"}
Times == {"t" \o ToString(i) : i \in 1..MaxTime}

\* str.strip().lower() on the strings above
StripLower(s) ==
    IF s = " Viyan Fashion World " THEN "viyan fashion world" ELSE s

\* hashlib.sha256(text.encode()).hexdigest(): injective, and no digest is a
\* plaintext of the model
sha256(text) == "sha256(" \o text \o ")"

db_ready == dbReady

\* dict.get(key, default)
Get(doc, key, default) == IF key \in DOMAIN doc THEN doc[key] ELSE default

\* collection.find_one({}): the first document, or None
find_one(coll) == IF coll = <<>> THEN None ELSE Some(Head(coll))

\* AdminSettings(username=DEFAULT_USERNAME, password_hash=sha256(DEFAULT_PASSWORD),
\*               upi_id="viyan@upi", logo_url=None)
DefaultSettings ==
    [username |-> DEFAULT_USERNAME,
     password_hash |-> sha256(DEFAULT_PASSWORD),
     upi_id |-> DEFAULT_UPI,
     logo_url |-> None]

\* database.create_document on the settings collection: inserts the record
insert_settings(coll, data) == Append(coll, data)

\* a variant that inserts without looking for an existing document
ensure_default_settings_nocheck(coll, fault) ==
    IF ~db_ready \/ fault THEN coll ELSE insert_settings(coll, DefaultSettings)

\* ensure_default_settings: the settings collection afterwards.  fault: a
\* store call raised, which the handler logs and swallows
ensure_default_settings(coll, fault) ==
    IF ~db_ready THEN coll
    ELSE IF fault THEN coll
    ELSE IF find_one(coll) = None THEN insert_settings(coll, DefaultSettings)
    ELSE coll

-----------------------------------------------------------------------------
(* Token registry *)

\* every digest a login of the model could produce
AllTokens == {sha256(u \o p \o t) : u \in Usernames, p \in Passwords, t \in Times}

\* every token a caller could present: none, empty, garbage, or such a digest
TokenCandidates == {None, Some(""), Some("garbage")} \cup {Some(t) : t \in AllTokens}

\* tokens the requests of the model present: none, empty, one that was never
\* issued, and every registered one
TokenInputs == {None, Some(""), Some("garbage")} \cup {Some(t) : t \in TOKENS}

\* auth_dependency: TRUE when it returns, FALSE when it raises 401
auth_dependency(token) ==
    ~(token = None \/ token = Some("") \/ token[1] \notin TOKENS)

Response(op, token, req, status, body) ==
    [op |-> op, token |-> token, req |-> req, status |-> status, body |-> body]

-----------------------------------------------------------------------------
(* Startup and login *)

Init ==
    /\ dbReady \in BOOLEAN
    /\ started = FALSE
    /\ settings = <<>>
    /\ products = <<>>
    /\ nextOid = 1
    /\ TOKENS = {}
    /\ issued = {}
    /\ resp = Response("init", None, None, 0, None)

\* startup_event
Startup ==
    /\ ~started
    /\ \E fault \in BOOLEAN :
        /\ settings' = ensure_default_settings(settings, fault)
        /\ resp' = Response("startup", None, [fault |-> fault], 0, None)
    /\ started' = TRUE
    /\ UNCHANGED <<dbReady, products, nextOid, TOKENS, issued>>

\* the condition of main.py line 115 on the stored document
StoredMatch(coll, payload) ==
    /\ find_one(coll) # None
    /\ LET doc == find_one(coll)[1] IN
        /\ StripLower(payload.username) = StripLower(Get(doc, "username", ""))
        /\ "password_hash" \in DOMAIN doc
        /\ sha256(payload.password) = doc.password_hash

\* the condition of main.py line 124
DefaultMatch(payload) ==
    /\ StripLower(payload.username) = DEFAULT_USERNAME
    /\ payload.password = DEFAULT_PASSWORD

\* admin_login returns a token: the stored check (skipped when the store is
\* not configured or the lookup raised), else the default-credentials check
LoginAccepts(coll, payload, fault) ==
    \/ db_ready /\ ~fault /\ StoredMatch(coll, payload)
    \/ DefaultMatch(payload)

admin_login(payload, now, ensureFault, fault) ==
    LET coll == ensure_default_settings(settings, ensureFault)
        token == sha256(payload.username \o payload.password \o now)
        req == [username |-> payload.username, password |-> payload.password,
                fault |-> fault]
    IN  /\ settings' = coll
        /\ IF LoginAccepts(coll, payload, fault)
           THEN /\ TOKENS' = TOKENS \cup {token}
                /\ issued' = issued \cup {token}
                /\ resp' = Response("login", None, req, 200, Some(token))
           ELSE /\ UNCHANGED <<TOKENS, issued>>
                /\ resp' = Response("login", None, req, 401, None)
        /\ UNCHANGED <<dbReady, started, products, nextOid>>

AdminLogin ==
    /\ started
    /\ Cardinality(TOKENS) < MaxTokens
    /\ \E u \in Usernames, p \in Passwords, now \in Times,
          ensureFault \in BOOLEAN, fault \in BOOLEAN :
        admin_login([username |-> u, password |-> p], now, ensureFault, fault)

-----------------------------------------------------------------------------
(* Settings *)

\* UpdateSettings request bodies: every field Optional, default None
SettingsBodies ==
    {[username |-> u, password |-> p, upi_id |-> i, logo_url |-> l] :
        u \in {None, Some("secret")},
        p \in {None, Some("secret")},
        i \in {None, Some("shop@upi")},
        l \in {None, Some("logo.png")}}

\* how every protected handler opens: the required query parameter
\* `token: str` (a request without it is answered 422 before the handler
\* runs), auth_dependency(token), then the db_ready() check; the status
\* raised, or 200 when all pass
RouteGuard_noDbCheck(token) ==
    IF token = None THEN 422
    ELSE IF ~auth_dependency(token) THEN 401
    ELSE 200

RouteGuard(token) ==
    IF token = None THEN 422
    ELSE IF ~auth_dependency(token) THEN 401
    ELSE IF ~db_ready THEN 503
    ELSE 200

\* the response of a protected route whose guard raised
Refused(op, token) == Response(op, token, None, RouteGuard(token), None)

\* schemas.AdminSettings accepts the document's fields: username,
\* password_hash and upi_id are str, not Optional
AdminSettingsValid(doc) == {"username", "password_hash", "upi_id"} \subseteq DOMAIN doc

\* get_settings
get_settings(token) ==
    /\ resp' = IF RouteGuard(token) # 200 THEN Refused("get_settings", token)
               ELSE IF find_one(settings) = None
                    THEN Response("get_settings", token, None, 404, None)
               ELSE LET doc == find_one(settings)[1] IN
                    IF ~AdminSettingsValid(doc)
                    THEN \* AdminSettings(...) raises ValidationError
                         Response("get_settings", token, None, 500, None)
                    ELSE Response("get_settings", token, None, 200,
                            [username |-> doc.username,
                             password_hash |-> doc.password_hash,
                             upi_id |-> doc.upi_id,
                             logo_url |-> Get(doc, "logo_url", None)])
    /\ UNCHANGED <<dbReady, started, settings, products, nextOid, TOKENS, issued>>

GetSettings == started /\ \E token \in TokenInputs : get_settings(token)

\* a variant that stores the password as given
SettingsUpdates_plain(payload) ==
    (IF payload.username # None THEN [username |-> payload.username[1]] ELSE <<>>)
    @@ (IF payload.password # None THEN [password_hash |-> payload.password[1]] ELSE <<>>)
    @@ (IF payload.upi_id # None THEN [upi_id |-> payload.upi_id[1]] ELSE <<>>)
    @@ (IF payload.logo_url # None THEN [logo_url |-> payload.logo_url] ELSE <<>>)

\* the `updates` dict of update_settings (lines 161-169)
SettingsUpdates(payload) ==
    (IF payload.username # None THEN [username |-> payload.username[1]] ELSE <<>>)
    @@ (IF payload.password # None
        THEN [password_hash |-> sha256(payload.password[1])] ELSE <<>>)
    @@ (IF payload.upi_id # None THEN [upi_id |-> payload.upi_id[1]] ELSE <<>>)
    @@ (IF payload.logo_url # None THEN [logo_url |-> payload.logo_url] ELSE <<>>)

\* update_one({}, {"$set": updates}, upsert=True): patch the first document,
\* or insert one holding the updates when the collection is empty
upsert_settings(coll, updates) ==
    IF coll = <<>> THEN <<updates>>
    ELSE [coll EXCEPT ![1] = updates @@ coll[1]]

\* a variant that writes even when no field was provided
SettingsWrite_always(coll, updates) == upsert_settings(coll, updates)

\* lines 170-172: the collection after the handler's write, if any
SettingsWrite(coll, updates) ==
    IF DOMAIN updates = {} THEN coll ELSE upsert_settings(coll, updates)

update_settings(payload, token) ==
    LET updates == SettingsUpdates(payload) IN
    IF RouteGuard(token) # 200
    THEN /\ resp' = Refused("update_settings", token)
         /\ UNCHANGED <<dbReady, started, settings, products, nextOid, TOKENS, issued>>
    ELSE /\ settings' = SettingsWrite(settings, updates)
         /\ resp' = Response("update_settings", token, payload, 200,
                             [updated |-> DOMAIN updates # {}])
         /\ UNCHANGED <<dbReady, started, products, nextOid, TOKENS, issued>>

UpdateSettingsRoute ==
    started /\ \E payload \in SettingsBodies, token \in TokenInputs :
        update_settings(payload, token)

-----------------------------------------------------------------------------
(* Products *)

\* JSON bodies of the product routes, as the fields the client sent
MinimalBody == [name |-> "Kurti", price |-> 999]
FullBody ==
    [name |-> "Saree", description |-> "silk", images |-> <<"a.jpg">>,
     price |-> 1500, discount_percent |-> 10, sizes |-> <<"M">>,
     offer_minutes |-> 30, is_active |-> FALSE]
ProductBodies ==
    {MinimalBody, FullBody,
     [name |-> "Kurti", price |-> -1],
     [name |-> "Kurti", price |-> 999, discount_percent |-> 96],
     [name |-> "Kurti", price |-> 999, offer_minutes |-> 0],
     [name |-> "Kurti"]}

\* ProductIn accepts the body: name and price are required
ProductInValid(body) == {"name", "price"} \subseteq DOMAIN body

Opt(body, key) == IF key \in DOMAIN body THEN Some(body[key]) ELSE None

\* ProductIn(**body): the parsed payload, defaults filled in
ProductIn(body) ==
    [name |-> body.name,
     description |-> Opt(body, "description"),
     images |-> Opt(body, "images"),
     price |-> body.price,
     discount_percent |-> Get(body, "discount_percent", 0),
     sizes |-> Opt(body, "sizes"),
     offer_minutes |-> Opt(body, "offer_minutes"),
     is_active |-> Get(body, "is_active", TRUE)]

\* x or default, for an Optional list
OrElse(opt, default) == IF opt = None \/ opt[1] = <<>> THEN default ELSE opt[1]

\* a variant that passes sizes through without the default
ProductData_noSizes(payload) ==
    [name |-> payload.name,
     description |-> payload.description,
     images |-> OrElse(payload.images, <<>>),
     price |-> payload.price,
     discount_percent |-> payload.discount_percent,
     sizes |-> OrElse(payload.sizes, <<>>),
     offer_minutes |-> payload.offer_minutes,
     is_active |-> payload.is_active]

\* the arguments create_product passes to Product(...) (lines 216-225)
ProductData(payload) ==
    [name |-> payload.name,
     description |-> payload.description,
     images |-> OrElse(payload.images, <<>>),
     price |-> payload.price,
     discount_percent |-> payload.discount_percent,
     sizes |-> OrElse(payload.sizes, DEFAULT_SIZES),
     offer_minutes |-> payload.offer_minutes,
     is_active |-> payload.is_active]

\* schemas.Product's field constraints: ge=0; ge=0, le=95; ge=1
ProductValid(data) ==
    /\ data.price >= 0
    /\ data.discount_percent >= 0 /\ data.discount_percent <= 95
    /\ data.offer_minutes = None \/ data.offer_minutes[1] >= 1

\* str(ObjectId): 24 hexadecimal digits
OidStr(n) == "00000000000000000000000" \o ToString(n)

\* ObjectId(product_id): the id, or None when bson raises InvalidId
ObjectId(s) ==
    IF \E n \in 1..(MaxOid + 1) : OidStr(n) = s
    THEN Some(CHOOSE n \in 1..(MaxOid + 1) : OidStr(n) = s)
    ELSE None

\* ids a request may name: every id the store can assign, one it never
\* assigns, and a string that is no ObjectId
ProductIds == {OidStr(n) : n \in 1..(MaxOid + 1)} \cup {"not-an-id"}

\* database.create_document: insert the record, the store assigning _id
create_document(coll, data, oid) == Append(coll, [_id |-> oid] @@ data)

\* database.get_documents: every document of the collection
get_documents(coll) == coll

\* to_public
to_public(doc) ==
    [k \in (DOMAIN doc \ {"_id"}) \cup {"id"} |->
        IF k = "id" THEN OidStr(doc._id) ELSE doc[k]]

\* what list_products returns; fault: get_documents raised
ListResult(coll, fault) ==
    IF ~db_ready THEN <<>>
    ELSE IF fault THEN <<>>
    ELSE [i \in 1..Len(get_documents(coll)) |-> to_public(get_documents(coll)[i])]

list_products(fault) ==
    /\ resp' = Response("list_products", None, [fault |-> fault], 200,
                        ListResult(products, fault))
    /\ UNCHANGED <<dbReady, started, settings, products, nextOid, TOKENS, issued>>

ListProducts == started /\ \E fault \in BOOLEAN : list_products(fault)

create_product(body, token) ==
    IF ~ProductInValid(body)
    THEN \* the body is rejected before the handler runs
         /\ resp' = Response("create_product", token, body, 422, None)
         /\ UNCHANGED <<dbReady, started, settings, products, nextOid, TOKENS, issued>>
    ELSE IF RouteGuard(token) # 200
    THEN /\ resp' = Refused("create_product", token)
         /\ UNCHANGED <<dbReady, started, settings, products, nextOid, TOKENS, issued>>
    ELSE IF ~ProductValid(ProductData(ProductIn(body)))
    THEN \* Product(...) raises ValidationError inside the handler
         /\ resp' = Response("create_product", token, body, 500, None)
         /\ UNCHANGED <<dbReady, started, settings, products, nextOid, TOKENS, issued>>
    ELSE /\ products' = create_document(products, ProductData(ProductIn(body)), nextOid)
         /\ nextOid' = nextOid + 1
         /\ resp' = Response("create_product", token, body, 200,
                             [id |-> OidStr(nextOid)])
         /\ UNCHANGED <<dbReady, started, settings, TOKENS, issued>>

CreateProduct ==
    /\ started
    /\ nextOid <= MaxOid
    /\ \E body \in ProductBodies, token \in TokenInputs : create_product(body, token)

\* positions of the documents with the given _id
Matching(coll, oid) == {i \in 1..Len(coll) : coll[i]._id = oid}

\* the dict comprehension of line 235: payload.dict() without the None values
ProductUpdates(payload) ==
    [name |-> payload.name, price |-> payload.price,
     discount_percent |-> payload.discount_percent,
     is_active |-> payload.is_active]
    @@ (IF payload.description # None
        THEN [description |-> payload.description] ELSE <<>>)
    @@ (IF payload.images # None THEN [images |-> payload.images[1]] ELSE <<>>)
    @@ (IF payload.sizes # None THEN [sizes |-> payload.sizes[1]] ELSE <<>>)
    @@ (IF payload.offer_minutes # None
        THEN [offer_minutes |-> payload.offer_minutes] ELSE <<>>)

\* update_one({"_id": oid}, {"$set": updates}) on a matched document
update_one(coll, oid, updates) ==
    LET i == CHOOSE j \in Matching(coll, oid) : \A k \in Matching(coll, oid) : j <= k
    IN  [coll EXCEPT ![i] = updates @@ coll[i]]

update_product(product_id, body, token) ==
    /\ IF ~ProductInValid(body)
       THEN \* the body is rejected before the handler runs
            /\ resp' = Response("update_product", token,
                                [id |-> product_id, body |-> body], 422, None)
            /\ UNCHANGED products
       ELSE IF RouteGuard(token) # 200
       THEN /\ resp' = Refused("update_product", token)
            /\ UNCHANGED products
       ELSE IF ObjectId(product_id) = None
       THEN \* bson.errors.InvalidId is not handled
            /\ resp' = Response("update_product", token,
                                [id |-> product_id, body |-> body], 500, None)
            /\ UNCHANGED products
       ELSE IF Matching(products, ObjectId(product_id)[1]) = {}
       THEN /\ resp' = Response("update_product", token,
                                [id |-> product_id, body |-> body], 404, None)
            /\ UNCHANGED products
       ELSE /\ products' = update_one(products, ObjectId(product_id)[1],
                                      ProductUpdates(ProductIn(body)))
            /\ resp' = Response("update_product", token,
                                [id |-> product_id, body |-> body], 200,
                                [updated |-> TRUE])
    /\ UNCHANGED <<dbReady, started, settings, nextOid, TOKENS, issued>>

UpdateProduct ==
    started /\ \E product_id \in ProductIds, body \in ProductBodies,
                  token \in TokenInputs : update_product(product_id, body, token)

\* delete_one({"_id": oid}) on a matched document
delete_one(coll, oid) ==
    LET i == CHOOSE j \in Matching(coll, oid) : \A k \in Matching(coll, oid) : j <= k
    IN  [j \in 1..(Len(coll) - 1) |-> IF j < i THEN coll[j] ELSE coll[j + 1]]

delete_product(product_id, token) ==
    /\ IF RouteGuard(token) # 200
       THEN /\ resp' = Refused("delete_product", token)
            /\ UNCHANGED products
       ELSE IF ObjectId(product_id) = None
       THEN \* bson.errors.InvalidId is not handled
            /\ resp' = Response("delete_product", token, [id |-> product_id], 500, None)
            /\ UNCHANGED products
       ELSE IF Matching(products, ObjectId(product_id)[1]) = {}
       THEN /\ resp' = Response("delete_product", token, [id |-> product_id], 404, None)
            /\ UNCHANGED products
       ELSE /\ products' = delete_one(products, ObjectId(product_id)[1])
            /\ resp' = Response("delete_product", token, [id |-> product_id], 200,
                                [deleted |-> TRUE])
    /\ UNCHANGED <<dbReady, started, settings, nextOid, TOKENS, issued>>

DeleteProduct ==
    started /\ \E product_id \in ProductIds, token \in TokenInputs :
        delete_product(product_id, token)

-----------------------------------------------------------------------------
(* Specifications *)

\* every route
Next ==
    \/ Startup
    \/ AdminLogin
    \/ GetSettings
    \/ UpdateSettingsRoute
    \/ ListProducts
    \/ CreateProduct
    \/ UpdateProduct
    \/ DeleteProduct

Spec == Init /\ [][Next]_vars

\* the authentication and settings routes
NextSettings == Startup \/ AdminLogin \/ GetSettings \/ UpdateSettingsRoute

SpecSettings == Init /\ [][NextSettings]_vars

\* login and the product routes
NextProducts ==
    \/ Startup
    \/ AdminLogin
    \/ ListProducts
    \/ CreateProduct
    \/ UpdateProduct
    \/ DeleteProduct

SpecProducts == Init /\ [][NextProducts]_vars

\* login, create, list and delete
NextCatalog ==
    \/ Startup
    \/ AdminLogin
    \/ ListProducts
    \/ CreateProduct
    \/ DeleteProduct

SpecCatalog == Init /\ [][NextCatalog]_vars

\* every route, in a process whose store was never configured
InitDown == Init /\ ~dbReady

SpecDown == InitDown /\ [][Next]_vars

\* every route, the settings and product writes with a few bodies only
CredentialBodies ==
    {b \in SettingsBodies : b.username = None /\ b.upi_id = None /\ b.logo_url = None}

UpdateCredentials ==
    started /\ \E payload \in CredentialBodies, token \in TokenInputs :
        update_settings(payload, token)

CreateMinimalProduct ==
    /\ started
    /\ nextOid <= MaxOid
    /\ \E token \in TokenInputs : create_product(MinimalBody, token)

UpdateMinimalProduct ==
    started /\ \E product_id \in ProductIds, token \in TokenInputs :
        update_product(product_id, MinimalBody, token)

NextAuth ==
    \/ Startup
    \/ AdminLogin
    \/ GetSettings
    \/ UpdateCredentials
    \/ ListProducts
    \/ CreateMinimalProduct
    \/ UpdateMinimalProduct
    \/ DeleteProduct

SpecAuth == Init /\ [][NextAuth]_vars

-----------------------------------------------------------------------------
(* Properties *)

ProtectedOps ==
    {"get_settings", "update_settings", "create_product", "update_product",
     "delete_product"}
AdminWriteOps ==
    {"update_settings", "create_product", "update_product", "delete_product"}

\* the last request was a login with these credentials
LoginPayload == [username |-> resp.req.username, password |-> resp.req.password]

\* C1: a login whose username/password do not match the stored settings
\* document, the store being available and holding a document, fails with 401
\* and leaves the token registry unchanged.
C1_InvalidLoginRejected ==
    [][(/\ resp'.op = "login"
        /\ dbReady
        /\ ~resp'.req.fault
        /\ find_one(settings') # None
        /\ ~StoredMatch(settings', [username |-> resp'.req.username,
                                    password |-> resp'.req.password]))
       => (resp'.status = 401 /\ TOKENS' = TOKENS)]_vars

\* the credentials are exactly the stored ones
ExactStored(coll, payload) ==
    /\ find_one(coll) # None
    /\ "username" \in DOMAIN coll[1] /\ coll[1].username = payload.username
    /\ "password_hash" \in DOMAIN coll[1]
    /\ coll[1].password_hash = sha256(payload.password)

ExactDefault(payload) ==
    payload.username = DEFAULT_USERNAME /\ payload.password = DEFAULT_PASSWORD

\* C2: a login with the stored credentials (the defaults when the store is
\* empty, unavailable or failing) returns a token, and in every state a
\* protected route accepts a token exactly when a login has returned it;
\* a missing, empty or never-issued token gets 401.
C2_TokenValidity ==
    /\ \A token \in TokenCandidates :
        auth_dependency(token) <=> (token # None /\ token[1] \in issued)
    /\ resp.op \in ProtectedOps =>
        (resp.status # 401 <=> (resp.token # None /\ resp.token[1] \in issued))
    /\ (/\ resp.op = "login"
        /\ IF dbReady /\ ~resp.req.fault /\ find_one(settings) # None
           THEN ExactStored(settings, LoginPayload)
           ELSE ExactDefault(LoginPayload))
       => (/\ resp.status = 200
           /\ resp.body[1] \in issued
           /\ auth_dependency(resp.body))

\* C3: the settings collection holds at most one document.
C3_SingleSettingsDocument == Len(settings) <= 1

\* C3 witness: a settings update issued while no document existed has
\* inserted the only document (it lacks the default fields)
C3_Witness ==
    /\ resp.op = "update_settings" /\ resp.status = 200
    /\ Len(settings) = 1
    /\ "username" \notin DOMAIN settings[1]

EmptySettingsBody ==
    [username |-> None, password |-> None, upi_id |-> None, logo_url |-> None]

\* C7: a settings update with a valid token (the store available) that
\* provides no field returns updated:false and changes nothing in the store,
\* whether or not a settings document exists.
C7_EmptyUpdateNoop ==
    [][(/\ resp'.op = "update_settings"
        /\ auth_dependency(resp'.token)
        /\ dbReady
        /\ resp'.req = EmptySettingsBody)
       => (/\ resp'.status = 200
           /\ resp'.body = [updated |-> FALSE]
           /\ UNCHANGED <<settings, products, nextOid>>)]_vars

\* C7 witness: such an update answered while no settings document exists
C7_Witness ==
    /\ resp.op = "update_settings" /\ resp.status = 200
    /\ resp.req = EmptySettingsBody
    /\ settings = <<>>

\* a field of the document holds the string p
HoldsPlain(doc, p) ==
    \E k \in DOMAIN doc :
        IF k = "logo_url" THEN doc[k] = Some(p) ELSE doc[k] = p

\* a field the request did not provide is as before the update
FieldKept(before, after, k) ==
    IF before # <<>> /\ k \in DOMAIN before[1]
    THEN k \in DOMAIN after[1] /\ after[1][k] = before[1][k]
    ELSE k \notin DOMAIN after[1]

\* C8 as stated: after a settings update providing password p the document
\* has password_hash = digest(p), no field holds p, the fields not provided
\* are unchanged, and a login with the stored username and p succeeds.
C8_PasswordNeverStored ==
    [][(/\ resp'.op = "update_settings" /\ resp'.status = 200
        /\ resp'.req.password # None)
       => LET p == resp'.req.password[1] IN
          /\ Len(settings') = 1
          /\ settings'[1].password_hash = sha256(p)
          /\ ~HoldsPlain(settings'[1], p)
          /\ \A k \in {"username", "upi_id", "logo_url"} :
                resp'.req[k] = None => FieldKept(settings, settings', k)
          /\ "username" \in DOMAIN settings'[1] =>
                LoginAccepts(settings',
                    [username |-> settings'[1].username, password |-> p], FALSE)]_vars

\* C8 amended: after a settings update providing password p the document has
\* password_hash = digest(p), which is not p; every other field holds the
\* value the request provided for it or, if not provided, its previous value;
\* and a login with the stored username and p succeeds.
C8_PasswordStoredAsDigest ==
    [][(/\ resp'.op = "update_settings" /\ resp'.status = 200
        /\ resp'.req.password # None)
       => LET p == resp'.req.password[1] IN
          /\ Len(settings') = 1
          /\ settings'[1].password_hash = sha256(p)
          /\ settings'[1].password_hash # p
          /\ \A k \in {"username", "upi_id"} :
                IF resp'.req[k] = None THEN FieldKept(settings, settings', k)
                ELSE settings'[1][k] = resp'.req[k][1]
          /\ IF resp'.req.logo_url = None
             THEN FieldKept(settings, settings', "logo_url")
             ELSE settings'[1].logo_url = resp'.req.logo_url
          /\ "username" \in DOMAIN settings'[1] =>
                LoginAccepts(settings',
                    [username |-> settings'[1].username, password |-> p], FALSE)]_vars

\* C8 witness: a password-only update has replaced the default digest and
\* kept the stored username
C8_Witness ==
    /\ resp.op = "update_settings" /\ resp.status = 200
    /\ resp.req.password = Some("secret") /\ resp.req.username = None
    /\ settings[1].password_hash = sha256("secret")
    /\ "username" \in DOMAIN settings[1]
    /\ settings[1].username = DEFAULT_USERNAME

\* C9: with the store unavailable list_products returns an empty sequence,
\* and every admin-write route called with a valid token (and a body that
\* request validation lets through) returns 503 and changes neither the
\* store nor the token registry.
C9_StoreUnavailable ==
    [][~dbReady =>
        /\ resp'.op = "list_products" => (resp'.status = 200 /\ resp'.body = <<>>)
        /\ (/\ resp'.op \in AdminWriteOps
            /\ auth_dependency(resp'.token)
            /\ resp'.status # 422) =>
            (/\ resp'.status = 503
             /\ UNCHANGED <<settings, products, nextOid, TOKENS>>)]_vars

\* C9 witness: a product delete with a registered token answered 503
C9_Witness ==
    /\ ~dbReady
    /\ resp.op = "delete_product" /\ resp.status = 503
    /\ resp.token # None /\ resp.token[1] \in TOKENS

\* position of the stored product with the public id, 0 when there is none
IndexOf(coll, id) ==
    IF \E i \in 1..Len(coll) : OidStr(coll[i]._id) = id
    THEN CHOOSE i \in 1..Len(coll) : OidStr(coll[i]._id) = id
    ELSE 0

\* the collection without its i-th document
Without(coll, i) ==
    [j \in 1..(Len(coll) - 1) |-> IF j < i THEN coll[j] ELSE coll[j + 1]]

OptionalProductFields ==
    {"discount_percent", "is_active", "description", "images", "sizes",
     "offer_minutes"}

\* C4: update_product with a valid token on an existing product keeps every
\* stored field the request omitted and every other product; for a
\* well-formed id that no product has it fails with 404 and changes nothing.
C4_UpdateKeepsOmittedFields ==
    [][(/\ resp'.op = "update_product"
        /\ auth_dependency(resp'.token)
        /\ dbReady
        /\ ProductInValid(resp'.req.body)
        /\ ObjectId(resp'.req.id) # None)
       => LET i == IndexOf(products, resp'.req.id) IN
          IF i = 0
          THEN resp'.status = 404 /\ products' = products
          ELSE /\ resp'.status = 200
               /\ Len(products') = Len(products)
               /\ \A j \in 1..Len(products) : j # i => products'[j] = products[j]
               /\ \A k \in OptionalProductFields :
                    k \notin DOMAIN resp'.req.body => products'[i][k] = products[i][k]]_vars

\* a stored product satisfies the ranges of schemas.Product
InRange(doc) ==
    /\ doc.price >= 0
    /\ doc.discount_percent >= 0 /\ doc.discount_percent <= 95
    /\ doc.offer_minutes = None \/ doc.offer_minutes[1] >= 1

\* a request body carries an out-of-range value
OutOfRange(body) ==
    \/ "price" \in DOMAIN body /\ body.price < 0
    \/ "discount_percent" \in DOMAIN body
         /\ (body.discount_percent < 0 \/ body.discount_percent > 95)
    \/ "offer_minutes" \in DOMAIN body /\ body.offer_minutes < 1

\* C5: every stored product has price >= 0, discount_percent in [0,95] and
\* offer_minutes absent or >= 1, and a create or update request carrying an
\* out-of-range value is rejected with a client error.
C5_StoredProductsInRange ==
    /\ \A i \in 1..Len(products) : InRange(products[i])
    /\ (/\ resp.op \in {"create_product", "update_product"}
        /\ resp.req # None
        /\ OutOfRange(IF resp.op = "create_product" THEN resp.req ELSE resp.req.body)
        /\ resp.op = "update_product" => ObjectId(resp.req.id) # None)
       => (resp.status >= 400 /\ resp.status <= 499)

\* C6: delete_product with a valid token and an available store returns 404
\* and changes nothing for any id that matches no stored product; for the id
\* of a stored product it returns deleted:true, removes exactly that product,
\* and list_products no longer shows it.
C6_DeleteProduct ==
    [][(/\ resp'.op = "delete_product"
        /\ auth_dependency(resp'.token)
        /\ dbReady)
       => LET i == IndexOf(products, resp'.req.id) IN
          IF i = 0
          THEN resp'.status = 404 /\ products' = products
          ELSE /\ resp'.status = 200
               /\ resp'.body = [deleted |-> TRUE]
               /\ products' = Without(products, i)
               /\ \A j \in 1..Len(ListResult(products', FALSE)) :
                    ListResult(products', FALSE)[j].id # resp'.req.id]_vars

\* a body create_product must accept
AcceptableBody(body) == ProductInValid(body) /\ ~OutOfRange(body)

\* C10: create_product with a valid token, an available store and an
\* acceptable body inserts exactly one product and returns its new public
\* id; the record has the five default sizes, no images, discount 0 and
\* is_active true where the body gave none, and list_products shows it once
\* under the returned id with the given name and price.
C10_CreateProduct ==
    [][(/\ resp'.op = "create_product"
        /\ auth_dependency(resp'.token)
        /\ dbReady
        /\ AcceptableBody(resp'.req))
       => LET body == resp'.req
              new == products'[Len(products')]
              listed == ListResult(products', FALSE)
              at == {j \in 1..Len(listed) : listed[j].id = resp'.body.id}
          IN  /\ resp'.status = 200
              /\ Len(products') = Len(products) + 1
              /\ SubSeq(products', 1, Len(products)) = products
              /\ IndexOf(products, resp'.body.id) = 0
              /\ OidStr(new._id) = resp'.body.id
              /\ "sizes" \notin DOMAIN body => new.sizes = <<"XS", "S", "M", "L", "XL">>
              /\ "images" \notin DOMAIN body => new.images = <<>>
              /\ "discount_percent" \notin DOMAIN body => new.discount_percent = 0
              /\ "is_active" \notin DOMAIN body => new.is_active = TRUE
              /\ Cardinality(at) = 1
              /\ \A j \in at : /\ listed[j].name = body.name
                               /\ listed[j].price = body.price
                               /\ "_id" \notin DOMAIN listed[j]]_vars

\* C10 witness: a second product created from the body {name, price}
C10_Witness ==
    /\ resp.op = "create_product" /\ resp.status = 200
    /\ resp.req = MinimalBody
    /\ Len(products) = 2
    /\ products[2].sizes = DEFAULT_SIZES

====
